---- MODULE Spec2Model ----
(***************************************************************************)
(* Model of app.py, the Streamlit dashboard "ML Algorithm Selection        *)
(* Quadrant".  The script is re-executed from its first line on every      *)
(* widget interaction; one action of the model is one such execution.      *)
(*                                                                         *)
(* Numbers: scores, coordinates, opacities and bubble sizes are fixed      *)
(* point values in thousandths (0.82 is 820, a frequency of 11 studies is  *)
(* 11000 when it is used as a bubble size).  Frequency is a plain count.   *)
(* A percentage is kept as the exact fraction [num, den].                  *)
(* The family name spelled with a diaeresis in the source is written       *)
(* "Naive-Bayesian" here.                                                  *)
(***************************************************************************)
EXTENDS Integers, Sequences, FiniteSets, TLC

VARIABLES task_context, selected_algo, df, hover_col, sidebar, fig, status, hist

vars == <<task_context, selected_algo, df, hover_col, sidebar, fig, status, hist>>

\* Number of earlier script runs whose output is remembered in hist.
MaxHist == 2

-----------------------------------------------------------------------------
(* 2. HEADER & ABSTRACT *)

\* lines 19-22: the quadrant in which the narrative places the families it
\* names (Bayesian Networks and Extremely Randomized Trees are not named)
narrative_quadrant ==
    ("Random Forest"     :> 1) @@
    ("Boosting/Gradient" :> 1) @@
    ("Ensemble"          :> 1) @@
    ("Regression"        :> 2) @@
    ("Naive-Bayesian"    :> 2) @@
    ("Decision Tree"     :> 2) @@
    ("KNN"               :> 3) @@
    ("ANN"               :> 4) @@
    ("SVM"               :> 4)

-----------------------------------------------------------------------------
(* 3. DATA LOADING *)

Row(cat, tc, td, pc, pd, fr, sa, sc, co) ==
    [category |-> cat, True_C |-> tc, True_D |-> td, Plot_C |-> pc, Plot_D |-> pd,
     Frequency |-> fr, Safety_Score |-> sa, Schedule_Score |-> sc, Cost_Score |-> co]

data_rows ==
    << Row("ANN",                        820,  90, 820,  90, 11, 200, 380, 440),
       Row("Bayesian Networks",            0, 200,   0, 200,  1, 250,   0, 450),
       Row("Boosting/Gradient",          840, 740, 840, 740, 29, 810, 720, 590),
       Row("Decision Tree",              530, 280, 530, 280, 12, 380, 180, 610),
       Row("Ensemble",                   800, 350, 800, 350, 13, 460, 440, 470),
       Row("Extremely Randomized Trees", 800, 800, 800, 800,  1, 880, 850, 680),
       Row("KNN",                        400, 130, 400, 130,  6, 125, 100, 475),
       Row("Naive-Bayesian",               0, 200,   0, 200,  2, 250,   0, 450),
       Row("Random Forest",              880, 670, 880, 670, 15, 800, 680, 550),
       Row("Regression",                 190, 200, 190, 200, 14, 290, 100, 450),
       Row("SVM",                        960, 200, 960, 200,  9, 320, 350, 490) >>

BaseColumns ==
    {"category", "True_C", "True_D", "Plot_C", "Plot_D", "Frequency",
     "Safety_Score", "Schedule_Score", "Cost_Score"}

RECURSIVE SumFrequency(_)
SumFrequency(rows) ==
    IF rows = << >> THEN 0 ELSE Head(rows).Frequency + SumFrequency(Tail(rows))

\* Variant: the frequencies are taken to be percentages already.
total_freq_hundred(rows) == 100

\* df['Frequency'].sum()
total_freq(rows) == SumFrequency(rows)

\* (df['Frequency'] / total_freq) * 100, as an exact fraction
Frequency_Pct(row, total) == [num |-> row.Frequency * 100, den |-> total]

\* Round num/den * scale to the nearest integer, halves to the even neighbour.
RoundHalfEven(num, den, scale) ==
    LET q  == (num * scale) \div den
        r2 == 2 * ((num * scale) % den)
    IN  IF r2 < den THEN q
        ELSE IF r2 > den THEN q + 1
        ELSE IF q % 2 = 0 THEN q ELSE q + 1

\* f"{pct:.1f}": the percentage in tenths of a percent
Fmt1f(pct) == RoundHalfEven(pct.num, pct.den, 10)

\* f"{row['category']}, {row['Frequency_Pct']:.1f}%"
Chart_Label(row, pct) == [name |-> row.category, tenths |-> Fmt1f(pct), suffix |-> "%"]

Extend(row, extra) ==
    [k \in (DOMAIN row) \cup (DOMAIN extra) |->
        IF k \in DOMAIN extra THEN extra[k] ELSE row[k]]

\* lines 41-44: the frame with its two derived columns
LoadData ==
    LET total == total_freq(data_rows)
    IN  [i \in DOMAIN data_rows |->
            LET pct == Frequency_Pct(data_rows[i], total)
            IN  Extend(data_rows[i],
                       [Frequency_Pct |-> pct,
                        Chart_Label   |-> Chart_Label(data_rows[i], pct)])]

-----------------------------------------------------------------------------
(* 4. SIDEBAR CONTROLS *)

TaskContexts ==
    <<"General Overview", "Safety Management", "Schedule Optimization", "Cost Prediction">>

\* Variant: the options are read from the keys of the colour table.
algo_options_palette(frame) ==
    << "All Algorithms", "Artifical Neural Network (ANN)", "Bayesian Networks",
       "Boosting/Gradient", "Decision Tree", "Ensemble", "Extremely Randomized Trees",
       "Naive-Bayesian", "Random Forest", "Regression", "Support Vector Machine (SVM)",
       "k-Nearest Neighbor (KNN)" >>

\* ["All Algorithms"] + sorted(df['category'].unique()); data_rows is written
\* in sorted order of category and has no repeated category.
algo_options(frame) == <<"All Algorithms">> \o [i \in DOMAIN frame |-> frame[i].category]

Range(s) == {s[i] : i \in DOMAIN s}


\* df[df['category'] == selected_algo]
RowsNamed(frame, name) == SelectSeq(frame, LAMBDA r : r.category = name)

\* Thousandths whose stored double lies just below the decimal written in the
\* table (0.475 is held as 0.47499999999999997...), so that ":.2f" rounds down.
StoredBelow == {475}

\* f"{x:.2f}" of a score: the value in hundredths.  A score that is a multiple
\* of 1/8 is stored exactly and its half is rounded to the even neighbour.
Fmt2f(v) ==
    LET q == v \div 10
        r == v % 10
    IN  IF r < 5 THEN q
        ELSE IF r > 5 THEN q + 1
        ELSE IF v % 125 = 0 THEN (IF q % 2 = 0 THEN q ELSE q + 1)
        ELSE IF v \in StoredBelow THEN q ELSE q + 1

Metric(label, value) == [kind |-> "metric", label |-> label, value |-> value]
Caption(label, value) == [kind |-> "caption", label |-> label, value |-> value]
Text(kind, text) == [kind |-> kind, text |-> text]

\* Variant: every task context shows the safety score.
TaskMetric_safety(row, ctx) ==
    IF ctx = "General Overview" THEN [kind |-> "caption", label |-> "Usage Frequency",
                                      value |-> Fmt1f(row.Frequency_Pct)]
    ELSE [kind |-> "metric", label |-> "Safety Score", value |-> Fmt2f(row.Safety_Score)]

\* lines 75-82: the metric that follows the two raw scores
TaskMetric(row, ctx) ==
    IF ctx = "Safety Management" THEN Metric("Safety Score", Fmt2f(row.Safety_Score))
    ELSE IF ctx = "Schedule Optimization" THEN Metric("Schedule Score", Fmt2f(row.Schedule_Score))
    ELSE IF ctx = "Cost Prediction" THEN Metric("Cost Score", Fmt2f(row.Cost_Score))
    ELSE Caption("Usage Frequency", Fmt1f(row.Frequency_Pct))

\* lines 64-89: what the details panel writes to the sidebar.  An empty row
\* lookup makes .iloc[0] raise IndexError, which ends the script run.
DetailsPanel(frame, sel, ctx) ==
    IF sel # "All Algorithms"
    THEN LET rows == RowsNamed(frame, sel)
         IN  IF rows = << >>
             THEN [error |-> "IndexError", elements |-> << >>]
             ELSE LET row == rows[1]
                  IN  [error |-> "none",
                       elements |-> << Text("subheader", sel),
                                       Metric("Complexity (C)", Fmt2f(row.True_C)),
                                       Metric("Data Fit (D)", Fmt2f(row.True_D)),
                                       TaskMetric(row, ctx) >>]
    ELSE IF ctx # "General Overview"
         THEN [error |-> "none",
               elements |-> << Text("info", ctx),
                               Text("markdown", "Bubble Size represents the suitability score for this task."),
                               Text("caption", "Larger Bubble = Better Choice") >>]
         ELSE [error |-> "none", elements |-> << >>]

-----------------------------------------------------------------------------
(* 5. VISUALIZATION LOGIC *)

pastel_map ==
    ("Artifical Neural Network (ANN)" :> "#D68C9F") @@
    ("Bayesian Networks"              :> "#A6C6CC") @@
    ("Boosting/Gradient"              :> "#A3C1A3") @@
    ("Decision Tree"                  :> "#BFB5C2") @@
    ("Ensemble"                       :> "#E6C8C8") @@
    ("Extremely Randomized Trees"     :> "#D1D1AA") @@
    ("k-Nearest Neighbor (KNN)"       :> "#9FA8DA") @@
    ("Naive-Bayesian"                 :> "#C4AFAF") @@
    ("Random Forest"                  :> "#DDB8AC") @@
    ("Regression"                     :> "#ABC6D4") @@
    ("Support Vector Machine (SVM)"   :> "#78909C")

custom_positions ==
    ("ANN"                        :> "top center") @@
    ("Bayesian Networks"          :> "bottom center") @@
    ("Boosting/Gradient"          :> "top center") @@
    ("Decision Tree"              :> "top center") @@
    ("Ensemble"                   :> "top center") @@
    ("Extremely Randomized Trees" :> "top left") @@
    ("KNN"                        :> "top center") @@
    ("Naive-Bayesian"             :> "top center") @@
    ("Random Forest"              :> "bottom center") @@
    ("Regression"                 :> "top center") @@
    ("SVM"                        :> "middle left")

\* df[col].round(2).astype(str): the score rounded to hundredths (multiply by
\* 100, round halves to even, divide)
Round2(v) == RoundHalfEven(v, 1000, 100)

SizeColumns(row, size, label, unit) ==
    Extend(row, [Size_Var |-> size, Size_Label |-> [value |-> label, unit |-> unit]])

ScoreColumn(ctx) ==
    IF ctx = "Safety Management" THEN "Safety_Score"
    ELSE IF ctx = "Schedule Optimization" THEN "Schedule_Score"
    ELSE "Cost_Score"

\* Variant: the multiplier of the stale comment "Scale up scores (x30)".
PrepareSize_x30(frame, ctx) ==
    IF ctx = "General Overview"
    THEN [df |-> [i \in DOMAIN frame |->
                    SizeColumns(frame[i], frame[i].Frequency * 1000, frame[i].Frequency, " Studies")],
          hover_col |-> "Frequency"]
    ELSE [df |-> [i \in DOMAIN frame |->
                    SizeColumns(frame[i], frame[i][ScoreColumn(ctx)] * 30,
                                Round2(frame[i][ScoreColumn(ctx)]), "")],
          hover_col |-> ScoreColumn(ctx)]

\* Variant: a task context also rewrites the chart label with the score.
PrepareSize_relabel(frame, ctx) ==
    IF ctx = "General Overview"
    THEN [df |-> [i \in DOMAIN frame |->
                    SizeColumns(frame[i], frame[i].Frequency * 1000, frame[i].Frequency, " Studies")],
          hover_col |-> "Frequency"]
    ELSE [df |-> [i \in DOMAIN frame |->
                    Extend(SizeColumns(frame[i], frame[i][ScoreColumn(ctx)] * 40,
                                       Round2(frame[i][ScoreColumn(ctx)]), ""),
                           [Chart_Label |-> [name   |-> frame[i].category,
                                             tenths |-> Round2(frame[i][ScoreColumn(ctx)]),
                                             suffix |-> ""]])],
          hover_col |-> ScoreColumn(ctx)]

\* Variant: the score column itself is scaled in place before it is copied.
PrepareSize_inplace(frame, ctx) ==
    IF ctx = "General Overview"
    THEN [df |-> [i \in DOMAIN frame |->
                    SizeColumns(frame[i], frame[i].Frequency * 1000, frame[i].Frequency, " Studies")],
          hover_col |-> "Frequency"]
    ELSE [df |-> [i \in DOMAIN frame |->
                    LET scaled == [frame[i] EXCEPT ![ScoreColumn(ctx)] = @ * 40]
                    IN  SizeColumns(scaled, scaled[ScoreColumn(ctx)],
                                    Round2(frame[i][ScoreColumn(ctx)]), "")],
          hover_col |-> ScoreColumn(ctx)]

\* lines 125-141: the Size_Var / Size_Label columns and hover_col.  A context
\* outside the four branches assigns nothing.
PrepareSize(frame, ctx) ==
    IF ctx = "General Overview"
    THEN [df |-> [i \in DOMAIN frame |->
                    SizeColumns(frame[i], frame[i].Frequency * 1000, frame[i].Frequency, " Studies")],
          hover_col |-> "Frequency"]
    ELSE IF ctx = "Safety Management"
    THEN [df |-> [i \in DOMAIN frame |->
                    SizeColumns(frame[i], frame[i].Safety_Score * 40, Round2(frame[i].Safety_Score), "")],
          hover_col |-> "Safety_Score"]
    ELSE IF ctx = "Schedule Optimization"
    THEN [df |-> [i \in DOMAIN frame |->
                    SizeColumns(frame[i], frame[i].Schedule_Score * 40, Round2(frame[i].Schedule_Score), "")],
          hover_col |-> "Schedule_Score"]
    ELSE IF ctx = "Cost Prediction"
    THEN [df |-> [i \in DOMAIN frame |->
                    SizeColumns(frame[i], frame[i].Cost_Score * 40, Round2(frame[i].Cost_Score), "")],
          hover_col |-> "Cost_Score"]
    ELSE [df |-> frame, hover_col |-> "undefined"]

\* color_discrete_map lookup of px.scatter: a category without an entry is
\* drawn with a colour of the template's default colour sequence.
DiscreteColor(name) ==
    IF name \in DOMAIN pastel_map THEN pastel_map[name] ELSE "template colorway"

\* lines 144-156: one trace per category, in order of appearance
ScatterTrace(row, hover) ==
    [name         |-> row.category,
     x            |-> row.Plot_C,
     y            |-> row.Plot_D,
     size         |-> row.Size_Var,
     text         |-> row.Chart_Label,
     hover        |-> [column |-> hover, value |-> row[hover]],
     marker_color |-> DiscreteColor(row.category)]

\* px.scatter raises ValueError when a named column is not in the frame
Scatter(frame, hover) ==
    IF \A i \in DOMAIN frame : "Size_Var" \in DOMAIN frame[i] /\ hover \in DOMAIN frame[i]
    THEN [error |-> "none", data |-> [i \in DOMAIN frame |-> ScatterTrace(frame[i], hover)]]
    ELSE [error |-> "ValueError", data |-> << >>]

\* lines 161-164
TextPosition(name) ==
    IF name \in DOMAIN custom_positions THEN custom_positions[name] ELSE "top center"

\* Variant: unselected markers are faded to 0.1.
Spotlight_dim(trace, sel) ==
    IF sel = "All Algorithms"
    THEN Extend(trace, [opacity |-> 1000, textfont_color |-> "black"])
    ELSE IF trace.name = sel
    THEN Extend(trace, [opacity |-> 1000, textfont_color |-> "black",
                        line_width |-> 2, line_color |-> "black"])
    ELSE Extend(trace, [marker_color |-> "#e0e0e0", opacity |-> 100,
                        textfont_color |-> "rgba(0,0,0,0.1)"])

\* lines 167-179
Spotlight(trace, sel) ==
    IF sel = "All Algorithms"
    THEN Extend(trace, [opacity |-> 1000, textfont_color |-> "black"])
    ELSE IF trace.name = sel
    THEN Extend(trace, [opacity |-> 1000, textfont_color |-> "black",
                        line_width |-> 2, line_color |-> "black"])
    ELSE Extend(trace, [marker_color |-> "#e0e0e0", opacity |-> 300,
                        textfont_color |-> "rgba(0,0,0,0.1)"])

\* lines 159-179: the loop body
FormatTrace(trace, sel) ==
    Spotlight(Extend(trace, [textposition |-> TextPosition(trace.name)]), sel)

c_median == 800
d_median == 200

grey_text == "rgba(100, 100, 100, 0.6)"

Rect(x0, y0, x1, y1, fill) ==
    [type |-> "rect", x0 |-> x0, y0 |-> y0, x1 |-> x1, y1 |-> y1, fillcolor |-> fill]

\* lines 183-186
QuadrantShapes ==
    << Rect(c_median, d_median, 1100, 1100, "#F0F4F8"),
       Rect(-100, d_median, c_median, 1100, "#F5F5F0"),
       Rect(-100, -100, c_median, d_median, "#FAF0F0"),
       Rect(c_median, -100, 1100, d_median, "#FDFDF0") >>

Annotation(x, y, quadrant, text) ==
    [x |-> x, y |-> y, quadrant |-> quadrant, text |-> text, color |-> grey_text]

\* lines 193-196
QuadrantAnnotations ==
    << Annotation(300, 650, 2, "Simple & Robust"),
       Annotation(950, 650, 1, "Best of Both"),
       Annotation(300, 100, 3, "Limited Applicability"),
       Annotation(950, 100, 4, "Complex & Fragile") >>

\* lines 181-205: shapes, threshold lines, annotations and axis ranges
Layout ==
    [shapes      |-> QuadrantShapes,
     vline       |-> c_median,
     hline       |-> d_median,
     annotations |-> QuadrantAnnotations,
     xaxis       |-> [lo |-> -100, hi |-> 1100],
     yaxis       |-> [lo |-> -100, hi |-> 1200]]

NoLayout ==
    [shapes |-> << >>, vline |-> 0, hline |-> 0, annotations |-> << >>,
     xaxis |-> [lo |-> 0, hi |-> 0], yaxis |-> [lo |-> 0, hi |-> 0]]

-----------------------------------------------------------------------------
(* One execution of the script, top to bottom *)

Script(sel, ctx) ==
    LET df0   == LoadData
        panel == DetailsPanel(df0, sel, ctx)
        sized == PrepareSize(df0, ctx)
        chart == Scatter(sized.df, sized.hover_col)
    IN  IF panel.error # "none"
        THEN [df |-> df0, hover_col |-> "undefined", sidebar |-> panel.elements,
              fig |-> [data |-> << >>, layout |-> NoLayout], status |-> panel.error]
        ELSE IF chart.error # "none"
        THEN [df |-> sized.df, hover_col |-> sized.hover_col, sidebar |-> panel.elements,
              fig |-> [data |-> << >>, layout |-> NoLayout], status |-> chart.error]
        ELSE [df |-> sized.df, hover_col |-> sized.hover_col, sidebar |-> panel.elements,
              fig |-> [data   |-> [i \in DOMAIN chart.data |-> FormatTrace(chart.data[i], sel)],
                       layout |-> Layout],
              status |-> "ok"]

Snapshot ==
    [selected_algo |-> selected_algo, task_context |-> task_context,
     data |-> fig.data, layout |-> fig.layout]

\* hist keeps what the first MaxHist script runs of the session displayed.
Remember(h) == IF Len(h) < MaxHist THEN Append(h, Snapshot) ELSE h

\* What a run displays for each pair of widget values.  The script reads
\* nothing but its two widgets, so the table is computed once.
Outputs ==
    [sel \in Range(algo_options(LoadData)), ctx \in Range(TaskContexts) |-> Script(sel, ctx)]

Run(sel, ctx) ==
    LET out == Outputs[sel, ctx]
    IN  /\ selected_algo' = sel
        /\ task_context' = ctx
        /\ df' = out.df
        /\ hover_col' = out.hover_col
        /\ sidebar' = out.sidebar
        /\ fig' = out.fig
        /\ status' = out.status
        /\ hist' = Remember(hist)

\* The first run: the radio's first option and selectbox index=0
Init ==
    LET out == Outputs[algo_options(LoadData)[1], TaskContexts[1]]
    IN  /\ selected_algo = algo_options(LoadData)[1]
        /\ task_context = TaskContexts[1]
        /\ df = out.df
        /\ hover_col = out.hover_col
        /\ sidebar = out.sidebar
        /\ fig = out.fig
        /\ status = out.status
        /\ hist = << >>

\* st.sidebar.selectbox: the user picks another entry of algo_options
SelectAlgo ==
    \E a \in Range(algo_options(df)) :
        /\ a # selected_algo
        /\ Run(a, task_context)

\* st.sidebar.radio: the user picks another task context
SelectContext ==
    \E c \in Range(TaskContexts) :
        /\ c # task_context
        /\ Run(selected_algo, c)

Next == SelectAlgo \/ SelectContext

Spec == Init /\ [][Next]_vars

-----------------------------------------------------------------------------
(* Properties *)

Families == {data_rows[i].category : i \in DOMAIN data_rows}

TracesOf(name) == {i \in DOMAIN fig.data : fig.data[i].name = name}

OneTracePerFamily ==
    /\ Len(fig.data) = Len(data_rows)
    /\ \A f \in Families : Cardinality(TracesOf(f)) = 1

\* C1: spotlight rule.  With "All Algorithms" selected every one of the 11
\* families is drawn at opacity 1.0; with a family F selected, F and only F is
\* at 1.0 and every other family is at the faded constant 0.3.
C1_Spotlight ==
    /\ OneTracePerFamily
    /\ Cardinality(Families) = 11
    /\ \A i \in DOMAIN fig.data :
          IF selected_algo = "All Algorithms" \/ fig.data[i].name = selected_algo
          THEN fig.data[i].opacity = 1000
          ELSE fig.data[i].opacity = 300

C1_Witness ==
    /\ selected_algo = "KNN"
    /\ task_context = "Cost Prediction"
    /\ \E i \in DOMAIN fig.data : fig.data[i].name = "KNN" /\ fig.data[i].opacity = 1000
    /\ \E i \in DOMAIN fig.data : fig.data[i].name = "SVM" /\ fig.data[i].opacity = 300

\* C2: a change of task context with the selection kept changes only the size
\* columns of the frame (Size_Var, Size_Label), hover_col and the size and hover
\* value of each trace; position, opacity, label text, label colour, label
\* anchor and every other trace attribute, and the overlay, stay as they were.
C2_ContextFrame ==
    [][(selected_algo' = selected_algo /\ task_context' # task_context) =>
          /\ Len(fig'.data) = Len(fig.data)
          /\ \A i \in DOMAIN fig.data :
                /\ DOMAIN fig'.data[i] = DOMAIN fig.data[i]
                /\ \A k \in (DOMAIN fig.data[i]) \ {"size", "hover"} :
                      fig'.data[i][k] = fig.data[i][k]
                /\ {"x", "y", "opacity", "text", "textfont_color", "textposition"}
                      \subseteq DOMAIN fig.data[i]
          /\ fig'.layout = fig.layout
          /\ Len(df') = Len(df)
          /\ \A i \in DOMAIN df :
                /\ DOMAIN df'[i] = DOMAIN df[i]
                /\ \A k \in (DOMAIN df[i]) \ {"Size_Var", "Size_Label"} :
                      df'[i][k] = df[i][k]]_vars

C2_Witness ==
    /\ Len(hist) = 2
    /\ hist[2].selected_algo = "SVM"
    /\ hist[2].task_context = "General Overview"
    /\ selected_algo = "SVM"
    /\ task_context = "Cost Prediction"
    /\ \E i \in DOMAIN fig.data : fig.data[i].size # hist[2].data[i].size

HighSideQuadrant(c, d) ==
    IF c >= c_median
    THEN (IF d >= d_median THEN 1 ELSE 4)
    ELSE (IF d >= d_median THEN 2 ELSE 3)

QuadrantText(q) ==
    LET a == CHOOSE n \in DOMAIN QuadrantAnnotations : QuadrantAnnotations[n].quadrant = q
    IN  QuadrantAnnotations[a].text

SelectedRow == CHOOSE i \in DOMAIN data_rows : data_rows[i].category = selected_algo

HasMetric(label, score) ==
    \E n \in DOMAIN sidebar :
        /\ sidebar[n].kind = "metric"
        /\ sidebar[n].label = label
        /\ 2 * sidebar[n].value * 10 - 2 * score \in -10 .. 10

HasText(text) ==
    \E n \in DOMAIN sidebar : "text" \in DOMAIN sidebar[n] /\ sidebar[n].text = text

TaskLabel ==
    IF task_context = "Safety Management" THEN "Safety Score"
    ELSE IF task_context = "Schedule Optimization" THEN "Schedule Score"
    ELSE "Cost Score"

TaskColumn ==
    IF task_context = "Safety Management" THEN "Safety_Score"
    ELSE IF task_context = "Schedule Optimization" THEN "Schedule_Score"
    ELSE "Cost_Score"

TaskScoreLabels == {"Safety Score", "Schedule Score", "Cost Score"}

ShowsRawScores ==
    /\ HasText(selected_algo)
    /\ HasMetric("Complexity (C)", data_rows[SelectedRow].True_C)
    /\ HasMetric("Data Fit (D)", data_rows[SelectedRow].True_D)

ShowsTaskScoreIffTask ==
    IF task_context = "General Overview"
    THEN \A n \in DOMAIN sidebar : sidebar[n].kind = "metric" => sidebar[n].label \notin TaskScoreLabels
    ELSE /\ HasMetric(TaskLabel, data_rows[SelectedRow][TaskColumn])
         /\ \A n \in DOMAIN sidebar :
               (sidebar[n].kind = "metric" /\ sidebar[n].label \in TaskScoreLabels)
                  => sidebar[n].label = TaskLabel

C5_QuadrantRule ==
    /\ \A i \in DOMAIN df :
          (df[i].category = "Boosting/Gradient" => HighSideQuadrant(df[i].True_C, df[i].True_D) = 1)
          /\ (df[i].category = "KNN" => HighSideQuadrant(df[i].True_C, df[i].True_D) = 3)
    /\ \A i \in DOMAIN df :
          df[i].category \in DOMAIN narrative_quadrant =>
             narrative_quadrant[df[i].category] = HighSideQuadrant(df[i].True_C, df[i].True_D)

RECURSIVE SumOf(_, _)
SumOf(seq, column) ==
    IF seq = << >> THEN 0 ELSE Head(seq)[column] + SumOf(Tail(seq), column)

RECURSIVE SumNum(_)
SumNum(seq) ==
    IF seq = << >> THEN 0 ELSE Head(seq).Frequency_Pct.num + SumNum(Tail(seq))

\* C6: in every task context the percentage of a family is 100 * frequency /
\* (sum of all frequencies), the 11 percentages add up to 100, and the chart
\* label is the family name with the percentage to one decimal
\* ("Boosting/Gradient, 25.7%").
C6_Percentages ==
    /\ Len(df) = 11
    /\ \A i \in DOMAIN df :
          LET pct == df[i].Frequency_Pct
          IN  /\ pct.den > 0
              /\ pct.den = df[1].Frequency_Pct.den
              /\ pct.num * SumOf(data_rows, "Frequency") = 100 * data_rows[i].Frequency * pct.den
              /\ df[i].Chart_Label.name = data_rows[i].category
              /\ df[i].Chart_Label.suffix = "%"
              /\ 2 * (df[i].Chart_Label.tenths * pct.den - 10 * pct.num) \in -pct.den .. pct.den
              /\ fig.data[i].text = df[i].Chart_Label
    /\ SumNum(df) = 100 * df[1].Frequency_Pct.den
    /\ \A i \in DOMAIN df :
          df[i].category = "Boosting/Gradient" => df[i].Chart_Label.tenths = 257

C6_Witness ==
    /\ task_context = "Safety Management"
    /\ selected_algo = "Boosting/Gradient"
    /\ \E i \in DOMAIN fig.data :
          fig.data[i].text = [name |-> "Boosting/Gradient", tenths |-> 257, suffix |-> "%"]

ScoreColumns == {"True_C", "True_D", "Safety_Score", "Schedule_Score", "Cost_Score"}

\* C7: in every reachable state the frame holds the same 11 rows: one per
\* family name, every score within [0,1], every frequency positive with their
\* sum as the percentage denominator, and every base column as written in
\* data_rows; only derived columns differ between states.
C7_DatasetFixed ==
    /\ Len(df) = 11
    /\ \A i, j \in DOMAIN df : df[i].category = df[j].category => i = j
    /\ \A i \in DOMAIN df :
          /\ BaseColumns \subseteq DOMAIN df[i]
          /\ \A k \in BaseColumns : df[i][k] = data_rows[i][k]
          /\ \A k \in ScoreColumns : df[i][k] \in 0 .. 1000
          /\ df[i].Frequency > 0
          /\ df[i].Frequency_Pct.den = SumOf(df, "Frequency")

C7_Witness ==
    /\ Len(hist) = MaxHist
    /\ selected_algo = "Ensemble"
    /\ task_context = "Safety Management"
    /\ \A i \in DOMAIN df : df[i].Size_Var = df[i].Safety_Score * 40

RenderAttributes == {"size", "opacity", "textfont_color", "textposition"}

\* C8: the render mapping is total and pure.  Every run ends without an error
\* (the row lookup for a selected name finds a row), every family has a
\* defined size, opacity, label colour and label anchor (its custom_positions
\* entry, or 'top center'), and a pair of widget values shown earlier in the
\* session is shown again with the same attributes.
C8_TotalAndPure ==
    /\ status = "ok"
    /\ selected_algo \in Range(algo_options(df))
    /\ selected_algo # "All Algorithms" => \E i \in DOMAIN df : df[i].category = selected_algo
    /\ OneTracePerFamily
    /\ \A i \in DOMAIN fig.data :
          /\ RenderAttributes \subseteq DOMAIN fig.data[i]
          /\ fig.data[i].size \in Nat
          /\ fig.data[i].opacity \in {300, 1000}
          /\ fig.data[i].textfont_color \in {"black", "rgba(0,0,0,0.1)"}
          /\ fig.data[i].textposition =
                IF fig.data[i].name \in DOMAIN custom_positions
                THEN custom_positions[fig.data[i].name]
                ELSE "top center"
    /\ \A n \in DOMAIN hist :
          (hist[n].selected_algo = selected_algo /\ hist[n].task_context = task_context)
             => hist[n].data = fig.data

\* hist holds only states that were left: the selection is shown again
C8_Witness ==
    /\ Len(hist) >= 2
    /\ selected_algo # "All Algorithms"
    /\ \E n \in DOMAIN hist :
          /\ hist[n].selected_algo = selected_algo
          /\ hist[n].task_context = task_context
          /\ hist[n].data = fig.data

InRect(r, x, y) == r.x0 <= x /\ x <= r.x1 /\ r.y0 <= y /\ y <= r.y1

GridPoints(axis) == {p \in axis.lo .. axis.hi : p % 50 = 0}

\* C9: the overlay is the same in every state and its four rectangles
\* partition the displayed plot area: every point of the axis ranges lies in
\* a rectangle, and two rectangles share only points of the threshold lines.
C9_OverlayPartition ==
    /\ \A n \in DOMAIN hist : hist[n].layout = fig.layout
    /\ Len(fig.layout.shapes) = 4
    /\ \A x \in GridPoints(fig.layout.xaxis), y \in GridPoints(fig.layout.yaxis) :
          /\ \E r \in DOMAIN fig.layout.shapes : InRect(fig.layout.shapes[r], x, y)
          /\ \A r1, r2 \in DOMAIN fig.layout.shapes :
                (r1 # r2 /\ InRect(fig.layout.shapes[r1], x, y) /\ InRect(fig.layout.shapes[r2], x, y))
                   => (x = fig.layout.vline \/ y = fig.layout.hline)

\* C10: every family name has an entry in pastel_map; a family that is not
\* faded is drawn in the pastel_map colour of its own name, in every task
\* context, and a faded family is drawn in the grey '#e0e0e0'.
C10_FamilyColour ==
    \A i \in DOMAIN fig.data :
        /\ fig.data[i].name \in DOMAIN pastel_map
        /\ IF selected_algo = "All Algorithms" \/ fig.data[i].name = selected_algo
           THEN fig.data[i].marker_color = pastel_map[fig.data[i].name]
           ELSE fig.data[i].marker_color = "#e0e0e0"

====
